---- MODULE Spec2Model ----
(***************************************************************************)
(* Salus: the Coordination-of-Benefits analysis pipeline                   *)
(* (backend/agent.py, backend/database.py, backend/main.py).               *)
(*                                                                         *)
(* Money.  The program computes with Python floats in dollars.  The model  *)
(* keeps every amount as an integer number of twentieths of a dollar       *)
(* (Dollars(d) = 20 * d) and draws bill totals and reply amounts in whole  *)
(* dollars, so that x * 0.7, (x - y) * 0.5 and every difference the        *)
(* pipeline forms is an integer: the arithmetic below is exact.            *)
(*                                                                         *)
(* Text.  A text is a sequence of lines, a line a sequence of lexemes      *)
(* (field names, ":", " ", "$", ",", "-", digit groups, words).  No field  *)
(* name is a substring of a concatenation of other lexemes, so Python's    *)
(* substring test, split(':'), strip() and replace() act on lexemes.       *)
(***************************************************************************)
EXTENDS Integers, Sequences, FiniteSets, TLC

VARIABLES
    client,          \* agent.py:17   the module-level Gemini client (TRUE: configured)
    mongo,           \* the MongoDB deployment behind MONGO_URI (environment)
    cached_db,       \* database.py:20  the module-level _db handle
    uploaded_files,  \* main.py:68    the module-level store of the last upload
    request,         \* the AnalyzeRequest being served
    state,           \* the AgentState threaded through the graph
    pc,              \* the graph node to run next
    response,        \* what analyze_endpoint returns
    hist             \* history of the run: the nodes run, the logs each returned, the
                     \* nodes that called the service and those that queried the
                     \* database, what the service sent to the last node, the reply
                     \* lines sent so far, the Coordinator's local summary

vars == <<client, mongo, cached_db, uploaded_files, request, state, pc, response, hist>>

----------------------------------------------------------------------------
(* Bounds of the model *)

\* Reply lines the reasoning service may send in one analysis run, all calls together.
MaxReplyLines == 2
\* Largest bill total drawn, in thousands of dollars.
MaxThousands == 1

----------------------------------------------------------------------------
(* Program constants *)

FallbackRateTenths == 7
AidRateTenths == 5
PolicyIdShown == 8
ServicesShown == 3
ReasoningShown == 150

----------------------------------------------------------------------------
(* Generic helpers *)

Dollars(d) == 20 * d

Max(a, b) == IF a >= b THEN a ELSE b
Min(a, b) == IF a <= b THEN a ELSE b

\* dict.get(k, default)
Get(d, k, default) == IF k \in DOMAIN d THEN d[k] ELSE default

\* s[:n]
Take(s, n) == SubSeq(s, 1, Min(n, Len(s)))

\* Mutant: the fallback multiplies by 0.8, the rate of the looked-up Sun Life plan.
TimesPlanRate(x) == (x * 8) \div 10

\* bill_total * 0.7
TimesFallbackRate(x) == (x * FallbackRateTenths) \div 10

\* remaining * 0.5
TimesAidRate(x) == (x * AidRateTenths) \div 10

\* ', '.join(items)
RECURSIVE Join(_)
Join(items) ==
    IF Len(items) = 0 THEN <<>>
    ELSE IF Len(items) = 1 THEN <<items[1]>>
    ELSE <<items[1], ", ">> \o Join(Tail(items))

\* A log line: the literal part of the f-string, the number and the text it formats.
Line(msg) == [msg |-> msg, amt |-> 0, txt |-> <<>>]
LineAmt(msg, a) == [msg |-> msg, amt |-> a, txt |-> <<>>]
LineTxt(msg, t) == [msg |-> msg, amt |-> 0, txt |-> t]
LineAmtTxt(msg, a, t) == [msg |-> msg, amt |-> a, txt |-> t]

----------------------------------------------------------------------------
(* Parsing a reply (agent.py:242-253, 353-368, 448-457) *)

\* 'KEY:' in line
HasField(line, key) ==
    \E i \in 1..(Len(line) - 1) : line[i] = key /\ line[i + 1] = ":"

\* Positions of the ":" lexemes of a line, in order.
Colons(line) == { i \in 1..Len(line) : line[i] = ":" }

FirstColon(line) == CHOOSE i \in Colons(line) : \A j \in Colons(line) : i <= j

\* line.split(':', 1)[1]
AfterFirstColon(line) == SubSeq(line, FirstColon(line) + 1, Len(line))

\* line.split(':')[1]
SecondSegment(line) ==
    LET c1 == FirstColon(line)
        later == { i \in Colons(line) : i > c1 }
        c2 == IF later = {} THEN Len(line) + 1
              ELSE CHOOSE i \in later : \A j \in later : i <= j
    IN SubSeq(line, c1 + 1, c2 - 1)

\* s.strip()
RECURSIVE StripLeft(_)
StripLeft(s) ==
    IF Len(s) > 0 /\ s[1] = " " THEN StripLeft(Tail(s)) ELSE s

RECURSIVE StripRight(_)
StripRight(s) ==
    IF Len(s) > 0 /\ s[Len(s)] = " " THEN StripRight(SubSeq(s, 1, Len(s) - 1)) ELSE s

Strip(s) == StripRight(StripLeft(s))

\* s.replace(ch, '')
Remove(s, ch) == SelectSeq(s, LAMBDA t : t # ch)

\* The digit groups of the lexicon, with their value and their number of digits.
DigitGroups == {"0", "1", "100", "500", "000"}

GroupValue(t) ==
    CASE t = "0" -> 0
      [] t = "1" -> 1
      [] t = "100" -> 100
      [] t = "500" -> 500
      [] t = "000" -> 0

GroupDigits(t) == IF t \in {"0", "1"} THEN 1 ELSE 3

RECURSIVE Pow10(_)
Pow10(n) == IF n = 0 THEN 1 ELSE 10 * Pow10(n - 1)

RECURSIVE DigitsValue(_)
DigitsValue(s) ==
    IF Len(s) = 0 THEN 0
    ELSE DigitsValue(SubSeq(s, 1, Len(s) - 1)) * Pow10(GroupDigits(s[Len(s)]))
         + GroupValue(s[Len(s)])

AllDigits(s) == Len(s) > 0 /\ \A i \in 1..Len(s) : s[i] \in DigitGroups

\* float(s) succeeds: an optional sign and digits (float() itself strips blanks).
FloatOk(s0) ==
    LET s == Strip(s0)
    IN \/ AllDigits(s)
       \/ Len(s) > 1 /\ s[1] = "-" /\ AllDigits(Tail(s))

\* float(s), in dollars
FloatValue(s0) ==
    LET s == Strip(s0)
    IN IF s[1] = "-" THEN 0 - DigitsValue(Tail(s)) ELSE DigitsValue(s)

\* line.split(':')[1].strip().replace('$', '').replace(',', '')
AmountText(line) == Remove(Remove(Strip(SecondSegment(line)), "$"), ",")

----------------------------------------------------------------------------
(* The database (database.py) *)

\* Python's None, and a found document.
NoDoc == [found |-> FALSE]
Doc(d) == [found |-> TRUE, doc |-> d]

PRIVATE_INSURANCE_PLANS == <<
    [plan_id |-> "SLG80", provider |-> "Sun Life", plan_name |-> "Gold Plan",
     prescription_coverage |-> 80],
    [plan_id |-> "MFC70", provider |-> "Manulife", plan_name |-> "Flex Benefits",
     prescription_coverage |-> 70],
    [plan_id |-> "GWL90", provider |-> "Great-West Life", plan_name |-> "Comprehensive",
     prescription_coverage |-> 90] >>

ONTARIO_DRUG_PROGRAMS == <<
    [program_id |-> "ODB", name |-> "Ontario Drug Benefit Program",
     coverage_rate |-> 100, region |-> "Ontario"],
    [program_id |-> "TDP", name |-> "Trillium Drug Program",
     coverage_rate |-> 100, region |-> "Ontario"] >>

\* get_db(): the handle returned and the value of the global _db afterwards.
\* _db is assigned before the ping, so a failed ping leaves it set.
get_db(cached, m) ==
    IF cached # "None" THEN [db |-> cached, cache |-> cached]
    ELSE IF ~m.uri THEN [db |-> "None", cache |-> "None"]
    ELSE IF m.up THEN [db |-> "handle", cache |-> "handle"]
    ELSE [db |-> "None", cache |-> "handle"]

\* {"$regex": pattern, "$options": "i"} on the provider names of the data.
RegexSearchI(pattern, s) ==
    IF pattern = "Sun Life" THEN s \in {"Sun Life", "SUN LIFE FINANCIAL"}
    ELSE s = pattern

\* collection.find_one(filter): the first document, in natural order, among the
\* matching ones (hits: their positions).
FindOne(docs, hits) ==
    IF hits = {} THEN NoDoc
    ELSE Doc(docs[CHOOSE i \in hits : \A j \in hits : i <= j])

\* find_insurance_plan(provider, plan_id); "" stands for an argument left None.
find_insurance_plan(cached, m, provider, plan_id) ==
    LET g == get_db(cached, m)
        ids == 1..Len(m.plans)
        byId == IF plan_id # ""
                THEN FindOne(m.plans, { i \in ids : m.plans[i].plan_id = plan_id })
                ELSE NoDoc
        byProvider ==
            IF provider # ""
            THEN FindOne(m.plans, { i \in ids : RegexSearchI(provider, m.plans[i].provider) })
            ELSE NoDoc
        default_plan == FindOne(m.plans, { i \in ids : m.plans[i].plan_id = "SLG80" })
    IN [cache |-> g.cache,
        ret |-> IF g.db = "None" THEN NoDoc
                ELSE IF ~m.up THEN NoDoc            \* the query raises; caught
                ELSE IF byId.found THEN byId
                ELSE IF byProvider.found THEN byProvider
                ELSE default_plan]

\* Mutant: no second query for Ontario when the region has no program.
find_government_program_region_only(cached, m, region) ==
    LET g == get_db(cached, m)
        programs == SelectSeq(m.programs, LAMBDA d : d.region = region)
        odb == FindOne(programs, { i \in 1..Len(programs) : programs[i].program_id = "ODB" })
    IN [cache |-> g.cache,
        ret |-> IF g.db = "None" THEN NoDoc
                ELSE IF ~m.up THEN NoDoc
                ELSE IF Len(programs) = 0 THEN NoDoc
                ELSE IF odb.found THEN odb
                ELSE Doc(programs[1])]

\* find_government_program(region)
find_government_program(cached, m, region) ==
    LET g == get_db(cached, m)
        ofRegion == SelectSeq(m.programs, LAMBDA d : d.region = region)
        programs == IF Len(ofRegion) > 0 THEN ofRegion
                    ELSE SelectSeq(m.programs, LAMBDA d : d.region = "Ontario")
        odb == FindOne(programs, { i \in 1..Len(programs) : programs[i].program_id = "ODB" })
    IN [cache |-> g.cache,
        ret |-> IF g.db = "None" THEN NoDoc
                ELSE IF ~m.up THEN NoDoc            \* the query raises; caught
                ELSE IF Len(programs) = 0 THEN NoDoc
                ELSE IF odb.found THEN odb
                ELSE Doc(programs[1])]

----------------------------------------------------------------------------
(* The reasoning service (client.models.generate_content) *)

\* What one call can come to: a reply text, a response whose .text is None,
\* or an exception (rate limit 429, timeout/cancellation, any other).
ErrorKinds == {"rate_limit", "timeout", "error"}
NoCall == [kind |-> "no_call", text |-> <<>>]
Failure(k) == [kind |-> k, text |-> <<>>]
Reply(t) == [kind |-> "text", text |-> t]

\* Mutant: a timeout is taken for a reply without text lines.
RaisesButTimeout(out) == out.kind \in {"rate_limit", "error", "no_text"}

\* The call raises inside the stage's try block (response.text None makes
\* text.split raise AttributeError).
Raises(out) == out.kind \in ErrorKinds \cup {"no_text"}

\* Mutant: the handler names the API's error class, and a timeout is not one.
EscapesTimeout(out) == out.kind = "timeout"

\* except Exception: no exception raised inside a stage's try block leaves the stage.
Escapes(out) == FALSE

\* The texts of one to n lines over the lines of L.
Texts(L, n) == UNION { [1..k -> L] : k \in 1..n }

Outcomes(L, n) ==
    { Failure(k) : k \in ErrorKinds \cup {"no_text"} } \cup { Reply(t) : t \in Texts(L, n) }

AdjusterLines == {
    <<"REASONING", ":", " ", "words">>,
    <<"COVERAGE_AMOUNT", ":", " ", "500">>,
    <<"COVERAGE_AMOUNT", ":", " ", "$", "1", ",", "500">>,
    <<"COVERAGE_AMOUNT", ":", " ", "1", "000", ":", "words">>,
    <<"COVERAGE_AMOUNT", ":", " ", "-", "100">>,
    <<"COVERAGE_AMOUNT", ":", " ", "words">>,
    <<"ASSESSMENT", ":", " ", "words">> }

SocialWorkerLines == {
    <<"PROGRAM_FOUND", ":", " ", "None">>,
    <<"PROGRAM_FOUND", ":", " ", "words">>,
    <<"AID_AMOUNT", ":", " ", "100">>,
    <<"AID_AMOUNT", ":", " ", "$", "1", ",", "500">>,
    <<"AID_AMOUNT", ":", " ", "-", "100">>,
    <<"AID_AMOUNT", ":", " ", "words">>,
    <<"RECOMMENDATION", ":", " ", "words">> }

CoordinatorLines == {
    <<"SUMMARY", ":", " ", "words">>,
    <<"SAVINGS", ":", " ", "$", "500", " ", "FINAL_MESSAGE", ":", " ", "words">> }

\* s.lower() on the lexemes of the replies
LowerLexeme(t) == IF t \in {"None", "NONE"} THEN "none" ELSE t
Lower(s) == [i \in 1..Len(s) |-> LowerLexeme(s[i])]

----------------------------------------------------------------------------
(* Node 1: extract_bill_info (agent.py:128-162) *)

EmptyDict == [k \in {} |-> 0]

\* The Python type of bill_data['total']: the request's total is a float; an
\* upload stores whatever JSON value the vision reply gave for total_charges.
TotalType(bill_data) == Get(bill_data, "total_type", "float")

\* Mutant: the service type is added to the services of the returned bill.
normalized_bill_listing(bill_total, service_type, services, provider) ==
    [total |-> bill_total, service |-> service_type,
     services |-> Append(services, service_type), provider |-> provider]

\* The bill_data the extractor returns (agent.py:155-160).
normalized_bill(bill_total, service_type, services, provider) ==
    [total |-> bill_total, service |-> service_type,
     services |-> services, provider |-> provider]

\* Mutant: every service of the bill is listed in the log line.
service_summary_all(services) == Join(services)

\* ', '.join(services[:3])
service_summary(services) == Join(Take(services, ServicesShown))

\* f"{bill_total:,.2f}" (agent.py:151) raises ValueError on a str.
extract_bill_info(st) ==
    LET bill_data == Get(st, "bill_data", EmptyDict)
        raw_total == Get(bill_data, "total", 0)
        bill_total == IF raw_total = 0 THEN 0 ELSE raw_total      \* ... or 0
        services == Get(bill_data, "services", <<>>)
        service_type == Get(bill_data, "service", "Medical Services")
        provider == Get(bill_data, "provider", "Unknown")
        service_log ==
            IF Len(services) > 0
            THEN LineAmtTxt("Extractor: Found {n} service(s): ", Len(services),
                            service_summary(services))
            ELSE LineTxt("Extractor: Service type: ", <<service_type>>)
    IN [bill_data |-> normalized_bill(bill_total, service_type, services, provider),
        logs |-> << Line("Extractor: Starting bill analysis..."),
                    LineTxt("Extractor: Document source: ", <<provider>>),
                    service_log,
                    LineAmt("Extractor: Total bill amount: $", bill_total),
                    Line("Extractor: Analysis complete. Passing to Adjuster...") >>,
        exc |-> TotalType(bill_data) = "str", calls |-> 0, lookups |-> 0]

----------------------------------------------------------------------------
(* Node 2: check_private_insurance (agent.py:165-270) *)

\* Mutant: the log line carries the whole policy id.
policy_id_whole(policy_id) == IF Len(policy_id) > 0 THEN policy_id ELSE <<"N/A">>

\* policy_id[:8] if policy_id else 'N/A'
policy_id_shown(policy_id) ==
    IF Len(policy_id) > 0 THEN Take(policy_id, PolicyIdShown) ELSE <<"N/A">>

\* Mutant: the amount read from the reply is capped at the bill total.
AdjusterLineClamped(acc, line, bill_total) ==
    [coverage_amount |->
         IF HasField(line, "COVERAGE_AMOUNT")
         THEN IF FloatOk(AmountText(line))
              THEN Min(Dollars(FloatValue(AmountText(line))), bill_total)
              ELSE TimesFallbackRate(bill_total)
         ELSE acc.coverage_amount,
     logs |-> acc.logs]

\* Mutant: an amount that is not a number is skipped, the amount so far is kept.
AdjusterLineKeeps(acc, line, bill_total) ==
    [coverage_amount |->
         IF HasField(line, "COVERAGE_AMOUNT") /\ FloatOk(AmountText(line))
         THEN Dollars(FloatValue(AmountText(line)))
         ELSE acc.coverage_amount,
     logs |-> acc.logs]

\* One pass of the loop over the reply's lines (agent.py:242-253).
AdjusterLine(acc, line, bill_total) ==
    LET reasoning ==
            IF HasField(line, "REASONING")
            THEN << LineTxt("Adjuster Agent [REASONING]: ",
                            Take(Strip(AfterFirstColon(line)), ReasoningShown)) >>
            ELSE <<>>
        amount ==
            IF HasField(line, "COVERAGE_AMOUNT")
            THEN IF FloatOk(AmountText(line))
                 THEN Dollars(FloatValue(AmountText(line)))
                 ELSE TimesFallbackRate(bill_total)
            ELSE acc.coverage_amount
        assessment ==
            IF HasField(line, "ASSESSMENT")
            THEN << LineTxt("Adjuster Agent [ASSESSMENT]: ", Strip(AfterFirstColon(line))) >>
            ELSE <<>>
    IN [coverage_amount |-> amount, logs |-> acc.logs \o reasoning \o assessment]

\* Mutant: the first matching line wins: a later line is applied before an
\* earlier one, so the earlier one overwrites it.
RECURSIVE AdjusterParseFirstWins(_, _, _)
AdjusterParseFirstWins(lines, acc, bill_total) ==
    IF Len(lines) = 0 THEN acc
    ELSE AdjusterLine(AdjusterParseFirstWins(Tail(lines), acc, bill_total),
                      Head(lines), bill_total)

RECURSIVE AdjusterParse(_, _, _)
AdjusterParse(lines, acc, bill_total) ==
    IF Len(lines) = 0 THEN acc
    ELSE AdjusterParse(Tail(lines), AdjusterLine(acc, Head(lines), bill_total), bill_total)

\* Mutant: without a client the looked-up plan's rate is applied when a plan
\* was found.
standard_coverage_by_plan(bill_total, insurance_plan) ==
    IF insurance_plan.found
    THEN (bill_total * insurance_plan.doc.prescription_coverage) \div 100
    ELSE TimesFallbackRate(bill_total)

\* The else branch (agent.py:261-263): coverage_amount = bill_total * 0.7,
\* whatever the lookup returned.
standard_coverage(bill_total, insurance_plan) == TimesFallbackRate(bill_total)

\* Mutant: the call is made whenever a client is configured, whatever the total.
AdjusterCallsWithClient(cl, bill_total) == cl

\* if client and bill_total > 0
AdjusterCalls(cl, bill_total) == cl /\ bill_total > 0

check_private_insurance(st, cl, cached, m, out) ==
    LET policy_id == Get(st, "policy_id", <<>>)
        bill_data == Get(st, "bill_data", EmptyDict)
        bill_total == Get(bill_data, "total", 0)
        services == Get(bill_data, "services", <<>>)
        service_type == Get(bill_data, "service", "Medical Services")
        lookup == find_insurance_plan(cached, m, "Sun Life", "")
        insurance_plan == lookup.ret
        head == << Line("Adjuster Agent: Initializing..."),
                   Line("Adjuster Agent: Loading insurance adjuster persona..."),
                   LineTxt("Adjuster Agent: Analyzing claim for policy #",
                           policy_id_shown(policy_id)),
                   LineAmt("Adjuster Agent: Bill amount: $", bill_total),
                   LineTxt("Adjuster Agent: Services: ",
                           IF Len(services) > 0 THEN Join(services) ELSE <<service_type>>),
                   Line("Adjuster Agent: Querying insurance database..."),
                   IF insurance_plan.found
                   THEN LineTxt("Adjuster Agent: Found plan: ",
                                <<insurance_plan.doc.provider, " ", insurance_plan.doc.plan_name>>)
                   ELSE Line("Adjuster Agent: No plan in database, using default coverage rates") >>
        connecting == << Line("Adjuster Agent: Connecting to Gemini LLM..."),
                         Line("Adjuster Agent: Processing with insurance expertise...") >>
        received == << Line("Adjuster Agent: LLM response received") >>
        parsed == AdjusterParse(out.text, [coverage_amount |-> 0, logs |-> <<>>], bill_total)
        fallback == TimesFallbackRate(bill_total)
        body ==
            IF AdjusterCalls(cl, bill_total)
            THEN IF Raises(out)
                 THEN [coverage_amount |-> fallback,
                       logs |-> connecting
                                \o (IF out.kind = "no_text" THEN received ELSE <<>>)
                                \o << Line("Adjuster Agent: LLM unavailable, using fallback calculation..."),
                                      LineAmt("Adjuster Agent: Fallback coverage: $", fallback) >>]
                 ELSE [coverage_amount |-> parsed.coverage_amount,
                       logs |-> connecting \o received \o parsed.logs
                                \o << LineAmt("Adjuster Agent: Coverage approved: $",
                                              parsed.coverage_amount) >>]
            ELSE [coverage_amount |-> standard_coverage(bill_total, insurance_plan),
                  logs |-> << LineAmt("Adjuster Agent: Standard coverage applied: $",
                                      standard_coverage(bill_total, insurance_plan)) >>]
    IN [private_coverage |-> body.coverage_amount,
        logs |-> head \o body.logs
                 \o << Line("Adjuster Agent: Analysis complete. Handing off to Social Worker Agent...") >>,
        exc |-> AdjusterCalls(cl, bill_total) /\ Raises(out) /\ Escapes(out),
        calls |-> IF AdjusterCalls(cl, bill_total) THEN 1 ELSE 0,
        lookups |-> 1,
        cache |-> lookup.cache]

----------------------------------------------------------------------------
(* Node 3: check_public_aid (agent.py:273-388) *)

\* Mutant: the amount is coerced without removing '$' and ','.
SocialWorkerLineNoStrip(acc, line) ==
    [public_aid |->
         IF HasField(line, "AID_AMOUNT")
         THEN IF FloatOk(Strip(SecondSegment(line)))
              THEN Dollars(FloatValue(Strip(SecondSegment(line))))
              ELSE 0
         ELSE acc.public_aid,
     logs |-> acc.logs]

\* One pass of the loop over the reply's lines (agent.py:353-368).
SocialWorkerLine(acc, line) ==
    LET reasoning ==
            IF HasField(line, "REASONING")
            THEN << LineTxt("Social Worker Agent [REASONING]: ",
                            Take(Strip(AfterFirstColon(line)), ReasoningShown)) >>
            ELSE <<>>
        program_found == Strip(AfterFirstColon(line))
        program ==
            IF HasField(line, "PROGRAM_FOUND") /\ Lower(program_found) # <<"none">>
            THEN << LineTxt("Social Worker Agent: Found program: ", program_found) >>
            ELSE <<>>
        aid ==
            IF HasField(line, "AID_AMOUNT")
            THEN IF FloatOk(AmountText(line))
                 THEN Dollars(FloatValue(AmountText(line)))
                 ELSE 0
            ELSE acc.public_aid
        recommendation ==
            IF HasField(line, "RECOMMENDATION")
            THEN << LineTxt("Social Worker Agent [RECOMMENDATION]: ",
                            Strip(AfterFirstColon(line))) >>
            ELSE <<>>
    IN [public_aid |-> aid, logs |-> acc.logs \o reasoning \o program \o recommendation]

RECURSIVE SocialWorkerParse(_, _)
SocialWorkerParse(lines, acc) ==
    IF Len(lines) = 0 THEN acc
    ELSE SocialWorkerParse(Tail(lines), SocialWorkerLine(acc, Head(lines)))

\* Mutant: the call is made whenever a client is configured.
SocialWorkerCallsAlways(cl, remaining) == cl

\* if client and remaining > 0
SocialWorkerCalls(cl, remaining) == cl /\ remaining > 0

\* Mutant: the fallback is applied in every region.
SocialWorkerFallbackAnyRegion(remaining, region) ==
    [public_aid |-> Min(remaining, TimesAidRate(remaining)),
     logs |-> << LineAmt("Social Worker Agent: Fallback - Ontario Works: $",
                         Min(remaining, TimesAidRate(remaining))) >>]

\* The except branch (agent.py:375-379).
SocialWorkerFallback(remaining, region) ==
    IF remaining > 0 /\ region \in {"Ontario", "Canada"}
    THEN [public_aid |-> Min(remaining, TimesAidRate(remaining)),
          logs |-> << LineAmt("Social Worker Agent: Fallback - Ontario Works: $",
                              Min(remaining, TimesAidRate(remaining))) >>]
    ELSE [public_aid |-> 0, logs |-> <<>>]

\* The else branch: no client, or nothing remains (agent.py:380-384).
SocialWorkerNoCall(remaining, region) ==
    [public_aid |-> 0,
     logs |-> IF remaining <= 0
              THEN << Line("Social Worker Agent: No remaining balance - patient fully covered!") >>
              ELSE << Line("Social Worker Agent: Checking local programs...") >>]

check_public_aid(st, cl, cached, m, out) ==
    LET region == Get(st, "region", "Ontario")
        bill_data == Get(st, "bill_data", EmptyDict)
        bill_total == Get(bill_data, "total", 0)
        private_coverage == Get(st, "private_coverage", 0)
        remaining == bill_total - private_coverage
        lookup == find_government_program(cached, m, region)
        gov_program == lookup.ret
        head == << Line("Social Worker Agent: Initializing..."),
                   Line("Social Worker Agent: Loading social services expertise..."),
                   LineTxt("Social Worker Agent: Patient region: ", <<region>>),
                   LineAmt("Social Worker Agent: Remaining balance after insurance: $", remaining),
                   Line("Social Worker Agent: Querying government programs database..."),
                   IF gov_program.found
                   THEN LineTxt("Social Worker Agent: Found program: ", <<gov_program.doc.name>>)
                   ELSE Line("Social Worker Agent: No programs in database, using general knowledge") >>
        connecting == << Line("Social Worker Agent: Connecting to Gemini LLM..."),
                         Line("Social Worker Agent: Analyzing eligibility for assistance programs...") >>
        received == << Line("Social Worker Agent: LLM response received") >>
        parsed == SocialWorkerParse(out.text, [public_aid |-> 0, logs |-> <<>>])
        fallback == SocialWorkerFallback(remaining, region)
        body ==
            IF SocialWorkerCalls(cl, remaining)
            THEN IF Raises(out)
                 THEN [public_aid |-> fallback.public_aid,
                       logs |-> connecting
                                \o (IF out.kind = "no_text" THEN received ELSE <<>>)
                                \o << Line("Social Worker Agent: LLM unavailable, using fallback...") >>
                                \o fallback.logs]
                 ELSE [public_aid |-> parsed.public_aid,
                       logs |-> connecting \o received \o parsed.logs
                                \o << IF parsed.public_aid > 0
                                      THEN LineAmt("Social Worker Agent: Aid secured: $",
                                                   parsed.public_aid)
                                      ELSE Line("Social Worker Agent: No additional aid programs found") >>]
            ELSE SocialWorkerNoCall(remaining, region)
    IN [public_coverage |-> body.public_aid,
        logs |-> head \o body.logs
                 \o << Line("Social Worker Agent: Search complete. Handing off to Coordinator Agent...") >>,
        exc |-> SocialWorkerCalls(cl, remaining) /\ Raises(out) /\ Escapes(out),
        calls |-> IF SocialWorkerCalls(cl, remaining) THEN 1 ELSE 0,
        lookups |-> 1,
        cache |-> lookup.cache]

----------------------------------------------------------------------------
(* Node 4: coordinate_benefits (agent.py:391-477) *)

\* Mutant: the difference is not clamped at zero.
YouPayUnclamped(bill_total, private, public) == bill_total - private - public

\* max(0, bill_total - private - public)
YouPay(bill_total, private, public) == Max(0, bill_total - private - public)

\* One pass of the loop over the reply's lines (agent.py:448-457).
CoordinatorLine(acc, line) ==
    LET value == Strip(AfterFirstColon(line))
        summary == IF HasField(line, "SUMMARY")
                   THEN << LineTxt("Coordinator Agent [SUMMARY]: ", value) >> ELSE <<>>
        savings == IF HasField(line, "SAVINGS")
                   THEN << LineTxt("Coordinator Agent [SAVINGS]: ", value) >> ELSE <<>>
        final_msg == IF HasField(line, "FINAL_MESSAGE")
                     THEN << LineTxt("Coordinator Agent [FINAL]: ", value) >> ELSE <<>>
    IN [summary |-> IF HasField(line, "SUMMARY") THEN LineTxt("", value) ELSE acc.summary,
        logs |-> acc.logs \o summary \o savings \o final_msg]

RECURSIVE CoordinatorParse(_, _)
CoordinatorParse(lines, acc) ==
    IF Len(lines) = 0 THEN acc
    ELSE CoordinatorParse(Tail(lines), CoordinatorLine(acc, Head(lines)))

\* The templated summary of the except branch (agent.py:461-464).
StandardSummary(you_pay) ==
    IF you_pay = 0
    THEN Line("Great news! Your bill is fully covered through coordinated benefits.")
    ELSE LineAmt("Through coordinated benefits, your responsibility is $", you_pay)

coordinate_benefits(st, cl, out) ==
    LET bill_data == Get(st, "bill_data", EmptyDict)
        bill_total == Get(bill_data, "total", 0)
        private == Get(st, "private_coverage", 0)
        public == Get(st, "public_coverage", 0)
        you_pay == YouPay(bill_total, private, public)
        head == << Line("Coordinator Agent: Initializing..."),
                   Line("Coordinator Agent: Loading coordination expertise..."),
                   Line("Coordinator Agent: Reviewing all benefits..."),
                   LineAmt("Coordinator Agent: Original bill: $", bill_total),
                   LineAmt("Coordinator Agent: Private insurance contribution: $", private),
                   LineAmt("Coordinator Agent: Government aid contribution: $", public),
                   Line("Coordinator Agent: Calculating final patient responsibility...") >>
        default_summary == LineAmt("You pay $", you_pay)
        connecting == << Line("Coordinator Agent: Connecting to Gemini LLM..."),
                         Line("Coordinator Agent: Generating final report...") >>
        received == << Line("Coordinator Agent: LLM response received") >>
        parsed == CoordinatorParse(out.text, [summary |-> default_summary, logs |-> <<>>])
        body ==
            IF cl
            THEN IF Raises(out)
                 THEN [summary |-> StandardSummary(you_pay),
                       logs |-> connecting
                                \o (IF out.kind = "no_text" THEN received ELSE <<>>)
                                \o << Line("Coordinator Agent: Using standard summary..."),
                                      LineAmtTxt("Coordinator Agent: ", StandardSummary(you_pay).amt,
                                                 <<StandardSummary(you_pay).msg>>) >>]
                 ELSE [summary |-> parsed.summary,
                       logs |-> connecting \o received \o parsed.logs]
            ELSE [summary |-> default_summary,
                  logs |-> << LineAmt("Coordinator Agent: Final amount: $", you_pay) >>]
    IN [final_cost |-> you_pay,
        logs |-> head \o body.logs
                 \o << Line("Coordinator Agent: Coordination of Benefits complete!"),
                       Line("=================================================="),
                       LineAmt("FINAL RESULT: Patient pays $", you_pay),
                       Line("==================================================") >>,
        exc |-> cl /\ Raises(out) /\ Escapes(out),
        calls |-> IF cl THEN 1 ELSE 0,
        lookups |-> 0,
        summary |-> body.summary]

----------------------------------------------------------------------------
(* The graph (agent.py:20-32, 489-501) *)

\* Mutant: the log channel has no reducer and is overwritten like a scalar.
MergeOverwrite(st, upd) == [k \in DOMAIN st |-> Get(upd, k, st[k])]

\* Mutant: the returned log lines are dropped.
MergeWithoutLogs(st, upd) ==
    [k \in DOMAIN st |->
        IF k = "logs" THEN st[k]
        ELSE IF k = "messages" THEN st[k] \o Get(upd, k, <<>>)
        ELSE Get(upd, k, st[k])]

\* Mutant: a key the node did not return falls back to its initial value
\* instead of keeping what an earlier node wrote.
MergeResetting(st, upd) ==
    [k \in DOMAIN st |->
        IF k \in {"logs", "messages"} THEN st[k] \o Get(upd, k, <<>>)
        ELSE IF k \in {"private_coverage", "public_coverage", "final_cost"}
             THEN Get(upd, k, 0)
        ELSE Get(upd, k, st[k])]

\* How the graph folds a node's returned update into the state: the channels
\* annotated with operator.add are concatenated, every other key is overwritten.
\* (exc, calls, lookups, cache and summary are the model's record of what the
\* node did besides returning; they are not state keys and are not merged.)
Merge(st, upd) ==
    [k \in DOMAIN st |->
        IF k \in {"logs", "messages"} THEN st[k] \o Get(upd, k, <<>>)
        ELSE Get(upd, k, st[k])]

\* Mutant: the extractor's edge goes to the social worker, skipping the adjuster.
NextNodeSkipping(node) ==
    CASE node = "extractor" -> "social_worker"
      [] node = "adjuster" -> "social_worker"
      [] node = "social_worker" -> "coordinator"
      [] node = "coordinator" -> "END"

\* Mutant: the social worker's edge leads back to the adjuster, so the stages
\* before the coordinator, and their calls, are run again.
NextNodeAgain(node) ==
    CASE node = "extractor" -> "adjuster"
      [] node = "adjuster" -> "social_worker"
      [] node = "social_worker" -> "adjuster"
      [] node = "coordinator" -> "END"

\* workflow.add_edge(...): the node that follows each node.
NextNode(node) ==
    CASE node = "extractor" -> "adjuster"
      [] node = "adjuster" -> "social_worker"
      [] node = "social_worker" -> "coordinator"
      [] node = "coordinator" -> "END"

NoHistory ==
    [stages |-> <<>>, stage_logs |-> <<>>, llm_calls |-> <<>>, last_out |-> NoCall,
     lookups |-> <<>>, reply_lines |-> 0, summary |-> Line("")]

\* One node of the graph: it returns upd after receiving out from the service.
\* A node that raises ends the run; nothing of it is merged.
RunNode(node, upd, out) ==
    /\ pc = node
    /\ (out = NoCall) <=> (upd.calls = 0)
    /\ IF upd.exc
       THEN /\ state' = state
            /\ pc' = "FAILED"
       ELSE /\ state' = Merge(state, upd)
            /\ pc' = NextNode(node)
    /\ hist' = [stages |-> Append(hist.stages, node),
                stage_logs |-> IF upd.exc THEN hist.stage_logs
                              ELSE Append(hist.stage_logs, upd.logs),
                llm_calls |-> IF upd.calls > 0 THEN Append(hist.llm_calls, node)
                              ELSE hist.llm_calls,
                last_out |-> IF out.kind \in ErrorKinds THEN Failure("raise") ELSE out,
                lookups |-> IF upd.lookups > 0 THEN Append(hist.lookups, node)
                            ELSE hist.lookups,
                reply_lines |-> hist.reply_lines + Len(out.text),
                summary |-> Get(upd, "summary", hist.summary)]
    /\ cached_db' = Get(upd, "cache", cached_db)
    /\ UNCHANGED <<client, mongo, uploaded_files, request, response>>

\* The replies the service may still send in this run.
Budget == MaxReplyLines - hist.reply_lines

\* What a node receives from the service: nothing when it makes no call.
ServiceOutcomes(called, L) == IF called THEN Outcomes(L, Budget) ELSE {NoCall}

\* state['bill_data'].get('total', 0)
StateTotal(st) == Get(Get(st, "bill_data", EmptyDict), "total", 0)

----------------------------------------------------------------------------
(* Inputs *)

\* AnalyzeRequest.bill_total is any float: negative, zero or positive.
Totals == { Dollars(1000 * k) : k \in (0 - 1)..MaxThousands }

PolicyIds == { <<>>, <<"P", "O", "L", "-", "1", "2", "3", "4", "5", "6">> }

Regions == {"Ontario", "Canada", "Texas", ""}

Requests ==
    [policy_id : PolicyIds, region : Regions, bill_total : Totals,
     service_type : {"Emergency Room Visit"}]

\* What the vision extraction of an upload can come to (main.py:150-194).
\* total_type "str": the reply gave total_charges as a text such as "1,000.00".
Visions ==
    { [ok |-> FALSE, total_charges |-> 0, total_type |-> "float", services |-> <<>>,
       provider_name |-> ""] }
    \cup { [ok |-> TRUE, total_charges |-> t, total_type |-> "float",
             services |-> <<"X-ray", "Cast", "Consult", "Crutches">>,
             provider_name |-> "Clinic"] : t \in { u \in Totals : u > 0 } }
    \cup { [ok |-> TRUE, total_charges |-> Dollars(1000), total_type |-> "str",
             services |-> <<>>, provider_name |-> "Clinic"] }

MongoConfigs ==
    { [uri |-> FALSE, up |-> FALSE, plans |-> <<>>, programs |-> <<>>],
      [uri |-> TRUE, up |-> FALSE, plans |-> PRIVATE_INSURANCE_PLANS,
       programs |-> ONTARIO_DRUG_PROGRAMS],
      [uri |-> TRUE, up |-> TRUE, plans |-> PRIVATE_INSURANCE_PLANS,
       programs |-> ONTARIO_DRUG_PROGRAMS],
      [uri |-> TRUE, up |-> TRUE, plans |-> <<>>, programs |-> <<>>] }

----------------------------------------------------------------------------
(* The endpoints (main.py) *)

\* upload_file (main.py:77-206): what it stores in uploaded_files.
upload_file(api_key, vision) ==
    LET base == [filename |-> "bill.png", total |-> 0, total_type |-> "float",
                 services |-> <<>>, service |-> "Unknown", date |-> "Unknown",
                 uploaded |-> TRUE]
        extracted_data ==
            IF ~api_key THEN base
            ELSE IF ~vision.ok
            THEN [base EXCEPT !.service = "Medical Services (analysis pending)"]
            ELSE [filename |-> "bill.png", total |-> vision.total_charges,
                  total_type |-> vision.total_type,
                  services |-> vision.services,
                  service |-> IF Len(vision.services) > 0
                              THEN "first services" ELSE "Medical Services",
                  date |-> "Unknown", uploaded |-> TRUE,
                  provider |-> IF vision.provider_name = "" THEN "Unknown"
                               ELSE vision.provider_name]
    IN [latest |-> [filename |-> "bill.png", path |-> "uploads/bill.png"],
        bill_data |-> extracted_data]

\* Mutant: an uploaded bill is used whenever there is one, whatever its total.
initial_state_upload_first(req, files) ==
    LET uploaded == Get(files, "bill_data", EmptyDict)
        real_bill_data ==
            IF uploaded = EmptyDict
            THEN [total |-> req.bill_total, service |-> req.service_type]
            ELSE uploaded
    IN [messages |-> <<>>, user_message |-> "", policy_id |-> req.policy_id,
        region |-> req.region, bill_data |-> real_bill_data,
        private_coverage |-> 0, public_coverage |-> 0, final_cost |-> 0,
        logs |-> <<>>,
        file_path |-> Get(Get(files, "latest", EmptyDict), "path", "None"),
        analysis_complete |-> TRUE, history |-> <<>>]

\* Mutant: the run starts with the bill's total as the cost.
initial_state_billed(req, files) ==
    LET uploaded == Get(files, "bill_data", EmptyDict)
        real_bill_data ==
            IF Get(uploaded, "total", 0) = 0
            THEN [total |-> req.bill_total, service |-> req.service_type]
            ELSE uploaded
    IN [messages |-> <<>>, user_message |-> "", policy_id |-> req.policy_id,
        region |-> req.region, bill_data |-> real_bill_data,
        private_coverage |-> 0, public_coverage |-> 0,
        final_cost |-> real_bill_data.total,
        logs |-> <<>>,
        file_path |-> Get(Get(files, "latest", EmptyDict), "path", "None"),
        analysis_complete |-> TRUE, history |-> <<>>]

\* analyze_endpoint (main.py:252-270): the initial state handed to the graph.
initial_state(req, files) ==
    LET uploaded == Get(files, "bill_data", EmptyDict)
        real_bill_data ==
            IF Get(uploaded, "total", 0) = 0
            THEN [total |-> req.bill_total, service |-> req.service_type]
            ELSE uploaded
    IN [messages |-> <<>>, user_message |-> "", policy_id |-> req.policy_id,
        region |-> req.region, bill_data |-> real_bill_data,
        private_coverage |-> 0, public_coverage |-> 0, final_cost |-> 0,
        logs |-> <<>>,
        file_path |-> Get(Get(files, "latest", EmptyDict), "path", "None"),
        analysis_complete |-> TRUE, history |-> <<>>]

\* Mutant: the endpoint answers with the state reached so far when a stage raised.
analyze_response_partial(result, failed) ==
    [status |-> 200,
     bill_total |-> Get(Get(result, "bill_data", EmptyDict), "total", 0),
     private_coverage |-> Get(result, "private_coverage", 0),
     public_coverage |-> Get(result, "public_coverage", 0),
     final_cost |-> Get(result, "final_cost", 0),
     logs |-> Get(result, "logs", <<>>),
     summary |-> LineAmt("After coordinating benefits, you pay: $",
                         Get(result, "final_cost", 0))]

\* analyze_endpoint (main.py:272-286): the response built from the graph's result.
analyze_response(result, failed) ==
    IF failed THEN [status |-> 500]
    ELSE [status |-> 200,
          bill_total |-> Get(Get(result, "bill_data", EmptyDict), "total", 0),
          private_coverage |-> Get(result, "private_coverage", 0),
          public_coverage |-> Get(result, "public_coverage", 0),
          final_cost |-> Get(result, "final_cost", 0),
          logs |-> Get(result, "logs", <<>>),
          summary |-> LineAmt("After coordinating benefits, you pay: $",
                              Get(result, "final_cost", 0))]

\* str(e) of the exception of each kind, as lexemes (nothing when none was raised).
ErrorText(kind) ==
    CASE kind = "rate_limit" -> <<"429", " ", "RESOURCE_EXHAUSTED">>
      [] kind = "timeout" -> <<"504", " ", "DEADLINE_EXCEEDED">>
      [] kind = "error" -> <<"500", " ", "INTERNAL">>
      [] OTHER -> <<>>

ChatMessages == {"hello", "check my coverage"}

\* create_chat_response (agent.py:51-125): the chat graph's only node.
\* The bill context formats the uploaded total with ',.2f' outside the try
\* block, and AIMessage(content=None) is refused: both raise out of the node.
create_chat_response(st, cl, out) ==
    LET bill_data == Get(st, "bill_data", EmptyDict)
        is_coverage_query == st.user_message = "check my coverage"
        error_str == ErrorText(out.kind)
        ai_response ==
            IF ~cl
            THEN Line("I'm here to help you understand your medical bills and find coverage.")
            ELSE IF out.kind = "text" THEN LineTxt("", out.text[1])
            ELSE IF \E i \in 1..Len(error_str) : error_str[i] \in {"429", "RESOURCE_EXHAUSTED"}
            THEN Line("I'm currently experiencing high demand.")
            ELSE Line("I understand you're concerned about your medical bills.")
    IN [messages |-> << LineTxt("human", <<st.user_message>>), ai_response >>,
        logs |-> << Line("Chat: Responded to user") >>,
        analysis_complete |-> is_coverage_query,
        exc |-> \/ Get(bill_data, "uploaded", FALSE) /\ TotalType(bill_data) = "str"
                \/ cl /\ out.kind = "no_text",
        calls |-> IF cl THEN 1 ELSE 0]

\* chat_endpoint (main.py:213-226): the initial state handed to the chat graph.
chat_initial_state(message, files) ==
    [messages |-> <<>>, user_message |-> message,
     bill_data |-> Get(files, "bill_data", EmptyDict),
     private_coverage |-> 0, public_coverage |-> 0, final_cost |-> 0,
     logs |-> <<>>, analysis_complete |-> FALSE]

\* chat_endpoint (main.py:209-245): the response to a chat request.
chat_endpoint(message, files, cl, out) ==
    LET st == chat_initial_state(message, files)
        upd == create_chat_response(st, cl, out)
        result == Merge(st, upd)
    IN IF upd.exc
       THEN [response |-> Line("I apologize, I'm having trouble processing your request."),
             logs |-> << Line("Error: ") >>, analysis_complete |-> FALSE]
       ELSE [response |-> result.messages[Len(result.messages)],
             logs |-> result.logs, analysis_complete |-> result.analysis_complete]

----------------------------------------------------------------------------
(* Actions *)

Init ==
    /\ client \in BOOLEAN
    /\ mongo \in MongoConfigs
    /\ cached_db = "None"
    /\ uploaded_files = EmptyDict
    /\ request = EmptyDict
    /\ state = EmptyDict
    /\ pc = "request"
    /\ response = EmptyDict
    /\ hist = NoHistory

Upload ==
    /\ pc = "request"
    /\ \E vision \in Visions : uploaded_files' = upload_file(client, vision)
    /\ UNCHANGED <<client, mongo, cached_db, request, state, pc, response, hist>>

Analyze ==
    /\ pc = "request"
    /\ \E req \in Requests :
          /\ request' = req
          /\ state' = initial_state(req, uploaded_files)
    /\ pc' = "extractor"
    /\ UNCHANGED <<client, mongo, cached_db, uploaded_files, response, hist>>

\* A chat request is served; it runs the chat graph, not the analysis.
Chat ==
    /\ pc = "request"
    /\ \E message \in ChatMessages :
       \E out \in (IF client THEN Outcomes({<<"words">>}, 1) ELSE {NoCall}) :
          /\ response' = chat_endpoint(message, uploaded_files, client, out)
          /\ hist' = [hist EXCEPT !.last_out = out]
    /\ pc' = "chatted"
    /\ UNCHANGED <<client, mongo, cached_db, uploaded_files, request, state>>

Extractor == RunNode("extractor", extract_bill_info(state), NoCall)

Adjuster ==
    \E out \in ServiceOutcomes(AdjusterCalls(client, StateTotal(state)), AdjusterLines) :
        RunNode("adjuster", check_private_insurance(state, client, cached_db, mongo, out), out)

SocialWorker ==
    \E out \in ServiceOutcomes(
                   SocialWorkerCalls(client, StateTotal(state) - Get(state, "private_coverage", 0)),
                   SocialWorkerLines) :
        RunNode("social_worker", check_public_aid(state, client, cached_db, mongo, out), out)

Coordinator ==
    \E out \in ServiceOutcomes(client, CoordinatorLines) :
        RunNode("coordinator", coordinate_benefits(state, client, out), out)

Respond ==
    /\ pc \in {"END", "FAILED"}
    /\ response' = analyze_response(state, pc = "FAILED")
    /\ pc' = "done"
    /\ UNCHANGED <<client, mongo, cached_db, uploaded_files, request, state, hist>>

Next == Upload \/ Chat \/ Analyze \/ Extractor \/ Adjuster \/ SocialWorker \/ Coordinator \/ Respond

Spec == Init /\ [][Next]_vars

----------------------------------------------------------------------------
(* Properties *)

Nodes == {"extractor", "adjuster", "social_worker", "coordinator"}

StageOrder == <<"extractor", "adjuster", "social_worker", "coordinator">>

Range(f) == { f[i] : i \in DOMAIN f }

RECURSIVE Flatten(_)
Flatten(seqs) == IF Len(seqs) = 0 THEN <<>> ELSE Head(seqs) \o Flatten(Tail(seqs))

HasLine(logs, msg) == \E i \in 1..Len(logs) : logs[i].msg = msg

\* An analysis request is being served, or has been.
Analysing == pc \in Nodes \cup {"END", "FAILED", "done"}

\* A stage raised: the run was abandoned.
Failed == pc = "FAILED" \/ (pc = "done" /\ response.status = 500)

\* The bill of the run is well formed: its total is a number.
WellFormedBill == TotalType(Get(state, "bill_data", EmptyDict)) = "float"

\* The graph has run to its end.
Ended == pc = "END" \/ (pc = "done" /\ response.status = 200)

\* The Adjuster, the SocialWorker have been merged.
AfterAdjuster == pc \in {"social_worker", "coordinator"} \/ Ended
AfterSocialWorker == pc = "coordinator" \/ Ended

\* The lines of a reply that hold the field key, and the last of them: each
\* matching line overwrites what the lines before it set.
FieldLines(text, key) == { i \in 1..Len(text) : HasField(text[i], key) }

LastFieldLine(text, key) ==
    text[CHOOSE i \in FieldLines(text, key) : \A j \in FieldLines(text, key) : j <= i]

\* The reply holds the field key and its amount is read as a number.
AmountRead(text, key) ==
    FieldLines(text, key) # {} /\ FloatOk(AmountText(LastFieldLine(text, key)))

\* That number, in dollars.
AmountValue(text, key) == FloatValue(AmountText(LastFieldLine(text, key)))

BillTotal == state.bill_data.total
Remaining == state.bill_data.total - state.private_coverage

\* C1: with no reasoning client, a full run on a bill total T >= 0 ends with
\* privateCoverage = 0.70 * T exactly, whatever the region, the policy id and
\* the outcome of the plan lookup (and the response reports these numbers).
C1_RuleBasedPrivateCoverage ==
    /\ (Ended /\ ~client /\ BillTotal >= 0)
          => 10 * state.private_coverage = 7 * BillTotal
    /\ (pc = "done" /\ ~client /\ response.status = 200 /\ response.bill_total >= 0)
          => 10 * response.private_coverage = 7 * response.bill_total

C1_Witness ==
    /\ pc = "done" /\ ~client /\ mongo.up
    /\ response.bill_total = Dollars(1000)
    /\ response.private_coverage = Dollars(700)
    /\ state.region = "Texas"

\* C2: for total, private, public >= 0 in the state the Coordinator ran on,
\* finalCost = max(0, total - private - public); it is 0 when private + public
\* exceeds total, whichever tier produced private and public.
C2_FinalCostClamped ==
    (Ended /\ BillTotal >= 0 /\ state.private_coverage >= 0 /\ state.public_coverage >= 0)
        => state.final_cost =
              IF BillTotal - state.private_coverage - state.public_coverage > 0
              THEN BillTotal - state.private_coverage - state.public_coverage
              ELSE 0

C2_Witness ==
    /\ pc = "END"
    /\ state.private_coverage > 0 /\ state.public_coverage > 0
    /\ state.private_coverage < BillTotal
    /\ state.private_coverage + state.public_coverage > BillTotal
    /\ state.final_cost = 0

\* C3: with no reasoning client, a run on bill.total = 1000 in region "Ontario"
\* ends with privateCoverage = 700, remaining = 300, publicCoverage = 150 and
\* finalCost = 150.
C3_EndToEndScenario ==
    (Ended /\ ~client /\ state.region = "Ontario" /\ BillTotal = Dollars(1000))
        => /\ state.private_coverage = Dollars(700)
           /\ Remaining = Dollars(300)
           /\ state.public_coverage = Dollars(150)
           /\ state.final_cost = Dollars(150)

\* C4: with no reasoning client, region "Ontario" or "Canada" and a positive
\* remaining = bill.total - privateCoverage, the SocialWorker sets
\* publicCoverage = 0.5 * remaining.
C4_RuleBasedPublicAid ==
    (AfterSocialWorker /\ ~client /\ state.region \in {"Ontario", "Canada"} /\ Remaining > 0)
        => 2 * state.public_coverage = Remaining

\* C5: the log is append-only: each stage's step leaves the log equal to the
\* log before it followed by exactly the lines that stage returned, and the
\* terminal log is the concatenation of the four stages' logs in stage order.
C5_LogAppendOnly ==
    [][ (pc \in Nodes /\ pc' # "FAILED") =>
          /\ Len(hist'.stage_logs) = Len(hist.stage_logs) + 1
          /\ state'.logs = state.logs \o hist'.stage_logs[Len(hist'.stage_logs)]
          /\ (pc' = "END" => /\ Len(hist'.stage_logs) = 4
                             /\ state'.logs = Flatten(hist'.stage_logs)) ]_vars

C5_Witness ==
    /\ pc = "END" /\ client
    /\ Len(hist.stage_logs) = 4
    /\ state.logs = Flatten(hist.stage_logs)
    /\ Len(state.logs) > Len(hist.stage_logs[4])
    /\ hist.reply_lines = MaxReplyLines

\* C6: every stage adds at least one log line on every execution path: the
\* log is strictly longer after each stage than before it (so non-empty after
\* the first).
C6_EveryStageLogs ==
    [][ (pc \in Nodes /\ pc' # "FAILED") => Len(state'.logs) > Len(state.logs) ]_vars

C6_Witness ==
    /\ pc = "END" /\ client /\ ~mongo.up
    /\ Remaining <= 0
    /\ "social_worker" \notin Range(hist.llm_calls)
    /\ hist.last_out.kind = "no_text"
    /\ \A i \in 1..4 : Len(hist.stage_logs[i]) >= 1

\* C7: in the SocialWorker, remaining <= 0 (a negative remaining included)
\* gives publicCoverage = 0 and no call of the reasoning service by that
\* stage, with or without a client.
C7_NoAidSoughtWhenCovered ==
    (AfterSocialWorker /\ Remaining <= 0)
        => /\ state.public_coverage = 0
           /\ "social_worker" \notin Range(hist.llm_calls)

C7_Witness ==
    /\ pc = "coordinator" /\ client
    /\ Remaining < 0
    /\ "adjuster" \in Range(hist.llm_calls)
    /\ state.public_coverage = 0

\* C8: with a client and bill.total > 0, a reply holding no COVERAGE_AMOUNT
\* field makes the Adjuster set privateCoverage = 0.70 * bill.total and log a
\* parse-fallback notice, without raising.
C8_MissingAmountFallsBack ==
    (/\ pc = "social_worker" /\ client /\ BillTotal > 0
     /\ hist.last_out.kind = "text"
     /\ \A i \in 1..Len(hist.last_out.text) :
           ~HasField(hist.last_out.text[i], "COVERAGE_AMOUNT"))
        => /\ 10 * state.private_coverage = 7 * BillTotal
           /\ \E i \in 1..Len(hist.stage_logs[2]) :
                 hist.stage_logs[2][i].msg \in
                     {"Adjuster Agent: LLM unavailable, using fallback calculation...",
                      "Adjuster Agent: Fallback coverage: $",
                      "Adjuster Agent: Standard coverage applied: $"}

\* C9: a successful run executes the four stages once each, in the order
\* extract, adjudicate-private, adjudicate-public, coordinate; a stage starts
\* only when the stages before it have run and their updates are merged.
C9_StagesInOrder ==
    (Analysing /\ ~Failed) =>
        \E k \in 0..4 :
            /\ hist.stages = SubSeq(StageOrder, 1, k)
            /\ Len(hist.stage_logs) = k
            /\ state.logs = Flatten(hist.stage_logs)
            /\ pc \in Nodes => (k < 4 /\ pc = StageOrder[k + 1])
            /\ Ended => k = 4

C9_Witness ==
    /\ pc = "done" /\ response.status = 200
    /\ hist.stages = StageOrder
    /\ Len(hist.llm_calls) = 3

\* C10: on a well-formed bill, whatever the client's availability, the outcome
\* of each reasoning call (any reply text, no text, rate limit, timeout, other
\* error) and of each lookup (found, absent, database unavailable or erroring),
\* a run never fails: the stage about to run returns an update for every outcome it may
\* receive, no run is in the failed position, and the response of a finished
\* run has status 200, follows all four stages and carries the Coordinator's
\* finalCost.
C10_RunNeverFails ==
    (Analysing /\ WellFormedBill) =>
    /\ pc # "FAILED"
    /\ pc = "extractor" => ~extract_bill_info(state).exc
    /\ pc = "adjuster" =>
           \A out \in ServiceOutcomes(AdjusterCalls(client, StateTotal(state)), AdjusterLines) :
               ~check_private_insurance(state, client, cached_db, mongo, out).exc
    /\ pc = "social_worker" =>
           \A out \in ServiceOutcomes(
                          SocialWorkerCalls(client, StateTotal(state) - Get(state, "private_coverage", 0)),
                          SocialWorkerLines) :
               ~check_public_aid(state, client, cached_db, mongo, out).exc
    /\ pc = "coordinator" =>
           \A out \in ServiceOutcomes(client, CoordinatorLines) :
               ~coordinate_benefits(state, client, out).exc
    /\ pc = "done" => /\ response.status = 200
                      /\ hist.stages = StageOrder
                      /\ response.final_cost = state.final_cost

C10_Witness ==
    /\ pc = "done" /\ client /\ mongo.uri /\ ~mongo.up
    /\ response.status = 200
    /\ hist.last_out.kind = "raise"
    /\ Len(hist.llm_calls) = 3
    /\ HasLine(response.logs, "Adjuster Agent: LLM unavailable, using fallback calculation...")
    /\ HasLine(response.logs, "Social Worker Agent: LLM unavailable, using fallback...")

\* C11: when a stage function raises, none of its scalar updates or log lines
\* is merged into the state, the stage is not run again and no later stage
\* runs: the only step that follows is the endpoint's answer, a failure
\* (status 500) that carries no result record.
C11_StageFailureAborts ==
    [][ /\ (pc \in Nodes /\ pc' = "FAILED") =>
              /\ state' = state
              /\ hist'.stage_logs = hist.stage_logs
              /\ hist'.stages = Append(hist.stages, pc)
        /\ pc = "FAILED" =>
              /\ pc' = "done"
              /\ state' = state
              /\ hist' = hist
              /\ response'.status = 500
              /\ DOMAIN response' = {"status"} ]_vars

C11_Witness ==
    /\ pc = "done" /\ response.status = 500
    /\ DOMAIN response = {"status"}
    /\ hist.stages = <<"extractor">>
    /\ hist.stage_logs = <<>>
    /\ state.logs = <<>> /\ state.final_cost = 0

\* C12: requests are independent: the bill an analyze request is run on, and
\* the bill total its result reports, are those of the request itself,
\* whatever upload requests were served before it; and a request whose own
\* bill is well formed does not fail.
C12_RequestsIndependent ==
    Analysing =>
        /\ StateTotal(state) = request.bill_total
        /\ ~Failed
        /\ (pc = "done" /\ response.status = 200) =>
               response.bill_total = request.bill_total

\* C13: the pipeline does not branch on the kind of error of a reasoning call:
\* in any state, the stage about to run returns the same update (coverage or
\* cost, and log lines) whether its call fails with a rate limit, a timeout or
\* any other error.  Only the chat reply tells rate limiting from the others.
C13_ErrorKindIgnored ==
    /\ (pc = "adjuster" /\ AdjusterCalls(client, StateTotal(state))) =>
           \A k1, k2 \in ErrorKinds :
               check_private_insurance(state, client, cached_db, mongo, Failure(k1))
                   = check_private_insurance(state, client, cached_db, mongo, Failure(k2))
    /\ (pc = "social_worker" /\ SocialWorkerCalls(client, Remaining)) =>
           \A k1, k2 \in ErrorKinds :
               check_public_aid(state, client, cached_db, mongo, Failure(k1))
                   = check_public_aid(state, client, cached_db, mongo, Failure(k2))
    /\ (pc = "coordinator" /\ client) =>
           \A k1, k2 \in ErrorKinds :
               coordinate_benefits(state, client, Failure(k1))
                   = coordinate_benefits(state, client, Failure(k2))
    /\ (pc = "chatted" /\ hist.last_out.kind \in ErrorKinds
           /\ response.logs = << Line("Chat: Responded to user") >>) =>
           (response.response = Line("I'm currently experiencing high demand.")
               <=> hist.last_out.kind = "rate_limit")

C13_Witness ==
    /\ pc = "coordinator" /\ client
    /\ hist.last_out.kind = "raise"
    /\ state.region = "Ontario"
    /\ Remaining > 0 /\ 2 * state.public_coverage = Remaining
    /\ HasLine(state.logs, "Adjuster Agent: LLM unavailable, using fallback calculation...")
    /\ HasLine(state.logs, "Social Worker Agent: LLM unavailable, using fallback...")

\* C14: when the Adjuster reads the reply's COVERAGE_AMOUNT, '$' and ','
\* removed, as a number v >= 0, privateCoverage = v exactly, also when v
\* exceeds the bill total: the Adjuster does not clamp.
C14_CoverageAmountAdopted ==
    (/\ pc = "social_worker" /\ hist.last_out.kind = "text"
     /\ AmountRead(hist.last_out.text, "COVERAGE_AMOUNT")
     /\ AmountValue(hist.last_out.text, "COVERAGE_AMOUNT") >= 0)
        => state.private_coverage = Dollars(AmountValue(hist.last_out.text, "COVERAGE_AMOUNT"))

C14_Witness ==
    /\ pc = "social_worker" /\ hist.last_out.kind = "text"
    /\ AmountRead(hist.last_out.text, "COVERAGE_AMOUNT")
    /\ BillTotal = Dollars(1000)
    /\ state.private_coverage = Dollars(1500)

\* C15: when the Adjuster's call is attempted and fails (an error, or a reply
\* without text), or the reply's COVERAGE_AMOUNT cannot be read as a number,
\* privateCoverage = 0.70 * bill.total: the multiplier is 0.70 whatever rate
\* the looked-up plan carries.
C15_AdjusterFallbackRate ==
    (/\ pc = "social_worker" /\ "adjuster" \in Range(hist.llm_calls)
     /\ \/ hist.last_out.kind \in {"raise", "no_text"}
        \/ /\ hist.last_out.kind = "text"
           /\ FieldLines(hist.last_out.text, "COVERAGE_AMOUNT") # {}
           /\ ~AmountRead(hist.last_out.text, "COVERAGE_AMOUNT"))
        => 10 * state.private_coverage = 7 * BillTotal

C15_Witness ==
    /\ pc = "social_worker" /\ hist.last_out.kind = "text"
    /\ FieldLines(hist.last_out.text, "COVERAGE_AMOUNT") = {1, 2}
    /\ ~AmountRead(hist.last_out.text, "COVERAGE_AMOUNT")
    /\ HasLine(state.logs, "Adjuster Agent: Found plan: ")
    /\ BillTotal = Dollars(1000)
    /\ state.private_coverage = Dollars(700)

\* C16: the Adjuster makes no call of the reasoning service when no client is
\* configured or when bill.total <= 0 (zero or negative), and then
\* privateCoverage = 0.70 * bill.total.
C16_AdjusterNoCall ==
    (AfterAdjuster /\ (~client \/ BillTotal <= 0))
        => /\ "adjuster" \notin Range(hist.llm_calls)
           /\ 10 * state.private_coverage = 7 * BillTotal

C16_Witness ==
    /\ pc = "social_worker" /\ client
    /\ BillTotal = Dollars(0 - 1000)
    /\ state.private_coverage = Dollars(0 - 700)
    /\ hist.llm_calls = <<>>
    /\ HasLine(state.logs, "Adjuster Agent: Standard coverage applied: $")

\* C17: in the SocialWorker, when remaining <= 0 no government program is
\* looked up and no reasoning call is made, and the stage logs that the
\* patient is fully covered.
C17_NoLookupWhenCovered ==
    (AfterSocialWorker /\ Remaining <= 0)
        => /\ "social_worker" \notin Range(hist.lookups)
           /\ "social_worker" \notin Range(hist.llm_calls)
           /\ HasLine(state.logs,
                      "Social Worker Agent: No remaining balance - patient fully covered!")

\* C18: when the SocialWorker reads the reply's AID_AMOUNT, '$' and ','
\* removed, as a number a >= 0, publicCoverage = a exactly, also when a
\* exceeds the remaining balance: the SocialWorker does not clamp.
C18_AidAmountAdopted ==
    (/\ pc = "coordinator" /\ hist.last_out.kind = "text"
     /\ AmountRead(hist.last_out.text, "AID_AMOUNT")
     /\ AmountValue(hist.last_out.text, "AID_AMOUNT") >= 0)
        => state.public_coverage = Dollars(AmountValue(hist.last_out.text, "AID_AMOUNT"))

C18_Witness ==
    /\ pc = "coordinator" /\ hist.last_out.kind = "text"
    /\ AmountRead(hist.last_out.text, "AID_AMOUNT")
    /\ Remaining = Dollars(300)
    /\ state.public_coverage = Dollars(1500)

\* C19: when the SocialWorker's call is attempted (remaining > 0) and fails,
\* publicCoverage follows the region rule: min(remaining, 0.5 * remaining),
\* that is half of remaining, in "Ontario" and "Canada", and 0 in every other
\* region, the empty one included.
C19_AidFallbackByRegion ==
    (/\ pc = "coordinator" /\ "social_worker" \in Range(hist.llm_calls)
     /\ hist.last_out.kind \in {"raise", "no_text"})
        => /\ Remaining > 0
           /\ state.region \in {"Ontario", "Canada"} => 2 * state.public_coverage = Remaining
           /\ state.region \notin {"Ontario", "Canada"} => state.public_coverage = 0

C19_Witness ==
    /\ pc = "coordinator" /\ "social_worker" \in Range(hist.llm_calls)
    /\ hist.last_out.kind = "raise"
    /\ state.region = "Canada"
    /\ Remaining = Dollars(1000)
    /\ state.public_coverage = Dollars(500)

\* C20: in "Ontario" or "Canada" with remaining > 0, when the SocialWorker's
\* call succeeds but the reply's AID_AMOUNT is missing or cannot be read as a
\* number, the stage applies the fallback of a failed call:
\* publicCoverage = min(remaining, 0.5 * remaining).
C20_AidParseFailureFallsBack ==
    (/\ pc = "coordinator" /\ "social_worker" \in Range(hist.llm_calls)
     /\ hist.last_out.kind = "text"
     /\ state.region \in {"Ontario", "Canada"}
     /\ ~AmountRead(hist.last_out.text, "AID_AMOUNT"))
        => 2 * state.public_coverage = Remaining

\* C21: no stage changes a scalar an earlier stage set.  The adjuster leaves the
\* normalised bill as it is, the social worker leaves the bill and the private
\* coverage, the coordinator leaves the bill and both coverages (over-coverage
\* included); no stage changes the policy id or the region.
C21_EarlierScalarsKept ==
    [][(pc \in Nodes) =>
          /\ state'.policy_id = state.policy_id
          /\ state'.region = state.region
          /\ (pc \in {"adjuster", "social_worker", "coordinator"})
                => state'.bill_data = state.bill_data
          /\ (pc \in {"social_worker", "coordinator"})
                => state'.private_coverage = state.private_coverage
          /\ (pc = "coordinator")
                => state'.public_coverage = state.public_coverage]_vars

\* A finished run whose private coverage exceeds the bill: the coordinator
\* clamped the cost and left the coverage above the total.
C21_Witness ==
    /\ Ended
    /\ BillTotal = Dollars(1000)
    /\ state.private_coverage = Dollars(1500)
    /\ state.final_cost = 0

\* C22: final_cost is 0 from the start of a run until the coordinator has
\* completed; no other step writes it, and the coordinator runs once in a run.
C22_FinalCostWrittenOnce ==
    [][/\ (pc = "request" /\ pc' = "extractor") => state'.final_cost = 0
       /\ (pc \in Nodes) => state.final_cost = 0
       /\ (pc \in Nodes \ {"coordinator"}) => state'.final_cost = 0
       /\ (pc = "coordinator") =>
             /\ Len(hist'.stages) = 4
             /\ \A i \in 1..3 : hist'.stages[i] # "coordinator"
       /\ (pc \in {"END", "FAILED"} /\ pc' \notin {"request", "extractor"})
             => state'.final_cost = state.final_cost]_vars

\* A finished run in which the coordinator wrote a positive cost.
C22_Witness ==
    /\ Ended
    /\ state.final_cost = Dollars(300)
    /\ hist.stages = StageOrder

\* The coordinator's reasoning call of the run was made and failed.
CoordinatorCallFailed ==
    /\ Len(hist.llm_calls) > 0
    /\ hist.llm_calls[Len(hist.llm_calls)] = "coordinator"
    /\ hist.last_out.kind \in {"raise", "no_text"}

\* C23: when there is no reasoning client, or the coordinator's call fails, the
\* summary the analysis returns is the templated one: the fully-covered
\* statement for a final cost of 0, else a statement naming the final cost.
C23_TemplatedSummaryReturned ==
    (/\ pc = "done"
     /\ response.status = 200
     /\ (~client \/ CoordinatorCallFailed))
        => IF response.final_cost = 0
           THEN response.summary = StandardSummary(0)
           ELSE response.summary.amt = response.final_cost

BillInput == initial_state(request, uploaded_files).bill_data

\* The log has a line with this literal part, number and text.
HasLineWith(logs, msg, a, t) ==
    \E i \in 1..Len(logs) : logs[i] = [msg |-> msg, amt |-> a, txt |-> t]

AmountLines(L, key) == { l \in L : HasField(l, key) }

\* C26: when a field is on more than one line of a reply, the last such line is
\* the one kept.  For a reply of two COVERAGE_AMOUNT lines (two AID_AMOUNT
\* lines) the stage's coverage is what the reply of the last line alone gives.
C26_LastLineWins ==
    /\ (pc = "adjuster" /\ AdjusterCalls(client, StateTotal(state))) =>
          \A a, b \in AmountLines(AdjusterLines, "COVERAGE_AMOUNT") :
              check_private_insurance(state, client, cached_db, mongo,
                                      Reply(<<a, b>>)).private_coverage
                = check_private_insurance(state, client, cached_db, mongo,
                                          Reply(<<b>>)).private_coverage
    /\ (pc = "social_worker" /\ SocialWorkerCalls(client, Remaining)) =>
          \A a, b \in AmountLines(SocialWorkerLines, "AID_AMOUNT") :
              check_public_aid(state, client, cached_db, mongo,
                               Reply(<<a, b>>)).public_coverage
                = check_public_aid(state, client, cached_db, mongo,
                                   Reply(<<b>>)).public_coverage

\* The adjuster received a reply of two COVERAGE_AMOUNT lines, $500 then
\* $1,500, and the coverage is the second.
C26_Witness ==
    /\ pc = "social_worker"
    /\ hist.last_out = Reply(<< <<"COVERAGE_AMOUNT", ":", " ", "500">>,
                                <<"COVERAGE_AMOUNT", ":", " ", "$", "1", ",", "500">> >>)
    /\ state.private_coverage = Dollars(1500)

-----------------------------------------------------------------------------
(* The lookups on their own (database.py), over any content of the database *)

\* The longest drug_programs collection considered.
MaxPrograms == 2

\* Documents a drug_programs collection may hold: the two seeded Ontario
\* programs and a program of another region.
ProgramDocs ==
    { ONTARIO_DRUG_PROGRAMS[1], ONTARIO_DRUG_PROGRAMS[2],
      [program_id |-> "CHIP", name |-> "Children's Health Insurance Program",
       coverage_rate |-> 100, region |-> "Texas"] }

\* MONGO_URI set or not, the server answering or not, any collection.
LookupConfigs ==
    { [uri |-> c[1], up |-> c[2], plans |-> PRIVATE_INSURANCE_PLANS, programs |-> p] :
        c \in { <<FALSE, FALSE>>, <<TRUE, FALSE>>, <<TRUE, TRUE>> },
        p \in UNION { [1..k -> ProgramDocs] : k \in 0..MaxPrograms } }

LookupInit ==
    /\ client = FALSE
    /\ mongo \in LookupConfigs
    /\ cached_db = "None"
    /\ uploaded_files = EmptyDict
    /\ request = EmptyDict
    /\ state = EmptyDict
    /\ pc = "lookup"
    /\ response = [of |-> "none"]
    /\ hist = NoHistory

\* A caller asks for the program of a region; response records the call.
GovernmentLookup ==
    /\ pc = "lookup"
    /\ \E region \in Regions :
          LET r == find_government_program(cached_db, mongo, region)
          IN /\ response' = [of |-> "find_government_program", region |-> region,
                             ret |-> r.ret]
             /\ cached_db' = r.cache
    /\ UNCHANGED <<client, mongo, uploaded_files, request, state, pc, hist>>

LookupNext == GovernmentLookup

LookupSpec == LookupInit /\ [][LookupNext]_vars

\* The positions of the programs of a region in the collection, and the first
\* position of a set of them.
ProgramsOf(m, region) == { i \in 1..Len(m.programs) : m.programs[i].region = region }
FirstOf(S) == CHOOSE i \in S : \A j \in S : i <= j

C28_CoveragesNonNegative ==
    /\ (AfterAdjuster /\ BillTotal >= 0) => state.private_coverage >= 0
    /\ (AfterSocialWorker /\ BillTotal >= 0) => state.public_coverage >= 0

\* The characters of the run's policy id after the eighth.
PolicyIdTail == { state.policy_id[k] : k \in (PolicyIdShown + 1)..Len(state.policy_id) }

C30_FinalCostWithinBill ==
    (Ended /\ BillTotal >= 0) =>
        /\ 0 <= state.final_cost
        /\ state.final_cost <= BillTotal

\* The numbers a run without a client ends with on a bill of this total in this
\* region, when the policy id is empty, the bill names no service or provider
\* and the database is not configured.
RefOutcome(total, region) ==
    LET down == [uri |-> FALSE, up |-> FALSE, plans |-> <<>>, programs |-> <<>>]
        s0 == [policy_id |-> <<>>, region |-> region,
               bill_data |-> [total |-> total, service |-> "Medical Services",
                              services |-> <<>>, provider |-> "Unknown"],
               private_coverage |-> 0, public_coverage |-> 0, final_cost |-> 0]
        s1 == [s0 EXCEPT !.private_coverage =
                   check_private_insurance(s0, FALSE, "None", down, NoCall).private_coverage]
        s2 == [s1 EXCEPT !.public_coverage =
                   check_public_aid(s1, FALSE, "None", down, NoCall).public_coverage]
    IN <<s2.private_coverage, s2.public_coverage,
         coordinate_benefits(s2, FALSE, NoCall).final_cost>>

\* C31: with no reasoning client the numbers a run ends with are a function of
\* the bill total and the region alone: every finished run has the numbers of
\* the run on the same total and region with an empty policy id, no services,
\* no provider and no database, whatever its own policy id, services, provider
\* and lookups were.
C31_OutcomeOfTotalAndRegion ==
    /\ (Ended /\ ~client) =>
          <<state.private_coverage, state.public_coverage, state.final_cost>>
              = RefOutcome(BillTotal, state.region)
    /\ (pc = "adjuster" /\ ~client) =>
          \A sv \in {<<>>, <<"X-ray", "Cast", "Consult", "Crutches">>},
             pv \in {"Unknown", "Clinic"} :
              check_private_insurance(
                  [state EXCEPT !.bill_data.services = sv, !.bill_data.provider = pv],
                  client, cached_db, mongo, NoCall).private_coverage
                = RefOutcome(BillTotal, state.region)[1]

\* A finished run without a client, with a ten-character policy id and both
\* lookups answered by the database.
C31_Witness ==
    /\ Ended /\ ~client
    /\ mongo.uri /\ mongo.up /\ Len(mongo.plans) > 0
    /\ Len(state.policy_id) = 10
    /\ HasLine(state.logs, "Adjuster Agent: Found plan: ")
    /\ BillTotal = Dollars(1000)
    /\ state.private_coverage = Dollars(700)
    /\ state.final_cost = Dollars(300)

\* A bill has been uploaded (main.py:196).
Uploaded == "bill_data" \in DOMAIN uploaded_files

\* C32: once a bill has been uploaded, an analysis analyses that bill: the
\* returned bill total is the uploaded bill's total, also when that total is 0;
\* the request's own bill_total is used only when nothing has been uploaded.
C32_UploadedBillAnalysed ==
    (pc = "done" /\ response.status = 200) =>
        response.bill_total = IF Uploaded THEN uploaded_files.bill_data.total
                              ELSE request.bill_total

\* C33: get_db hands out a database handle only if a ping on it has succeeded:
\* after a call whose connection test failed, the next call returns None as
\* long as the server does not answer, and no lookup receives a handle that was
\* never pinged successfully.
C33_HandleOnlyAfterPing ==
    (get_db(cached_db, mongo).db # "None") => (mongo.uri /\ mongo.up)

\* C34: the extractor is idempotent on the bill: applied to a state whose bill
\* is an extractor output, it returns the same bill (total, service, services,
\* provider) and does not raise.
C34_ExtractorIdempotent ==
    (pc \in Nodes \ {"extractor"}) =>
        LET again == extract_bill_info([bill_data |-> state.bill_data])
        IN /\ ~again.exc
           /\ again.bill_data = state.bill_data

\* The extractor has returned the bill of an upload: four services, a provider.
C34_Witness ==
    /\ pc = "adjuster"
    /\ state.bill_data = [total |-> Dollars(1000), service |-> "first services",
                          services |-> <<"X-ray", "Cast", "Consult", "Crutches">>,
                          provider |-> "Clinic"]

\* C32 as the code has it: an analysis analyses the uploaded bill when one has
\* been uploaded and its total is not 0; when nothing has been uploaded, or
\* the uploaded total is 0, the request's own bill_total is the bill total.
C32_UploadedBillWithTotalAnalysed ==
    (pc = "done" /\ response.status = 200) =>
        response.bill_total =
            IF Uploaded /\ uploaded_files.bill_data.total # 0
            THEN uploaded_files.bill_data.total
            ELSE request.bill_total

\* An analysis served after an upload whose extraction found $1,000, on a
\* request that named another total.
C32_Witness ==
    /\ pc = "done" /\ response.status = 200
    /\ Uploaded /\ uploaded_files.bill_data.total = Dollars(1000)
    /\ request.bill_total = 0
    /\ response.bill_total = Dollars(1000)

\* What the service may answer to the chat's one call.
ChatOutcomes == IF client THEN Outcomes({<<"words">>}, 1) ELSE {NoCall}

\* C35: the chat stage never fails.  Whether there is no client, the call
\* succeeds or the call fails, it produces one user message followed by one
\* assistant message and one log line; a rate-limited call gives the
\* high-demand apology, any other failed call the generic fallback; the
\* coverages and the final cost are left as they were.
C35_ChatNeverFails ==
    /\ (pc = "request") =>
          \A message \in ChatMessages, out \in ChatOutcomes :
              LET st == chat_initial_state(message, uploaded_files)
                  upd == create_chat_response(st, client, out)
                  result == Merge(st, upd)
              IN /\ ~upd.exc
                 /\ Len(result.messages) = 2
                 /\ result.messages[1] = LineTxt("human", <<message>>)
                 /\ Len(result.logs) = 1
                 /\ (out.kind = "rate_limit") =>
                       result.messages[2] = Line("I'm currently experiencing high demand.")
                 /\ (out.kind \in ErrorKinds \ {"rate_limit"}) =>
                       result.messages[2]
                         = Line("I understand you're concerned about your medical bills.")
                 /\ result.private_coverage = st.private_coverage
                 /\ result.public_coverage = st.public_coverage
                 /\ result.final_cost = st.final_cost
    /\ (pc = "chatted") => response.logs = << Line("Chat: Responded to user") >>

====
